---- MODULE Spec2Model ----
(***************************************************************************)
(* A model of the varouter path matching router (src/varouter.go, the      *)
(* current implementation at lines 281-794).                               *)
(*                                                                         *)
(* Strings are sequences of one-character strings, so that slicing,       *)
(* scanning for separators and stripping markers are modelled by what the  *)
(* code does.  Indices follow the source (0-based); At and Slice convert   *)
(* to the 1-based sequences of TLA+.                                       *)
(*                                                                         *)
(* The tree of elements is a function from node identities to element      *)
(* records.  A node is identified by the sequence of element names that    *)
(* leads to it from the root, so the Go map  e.subs[name]  is the node     *)
(* Append(e, name)  when that node is in the domain of the tree.           *)
(***************************************************************************)
EXTENDS Integers, Sequences, FiniteSets, TLC

VARIABLES
    tree,        \* Varouter.root and everything below it
    count,       \* Varouter.count
    registered,  \* history: the templates whose Register call returned nil
    nregs,       \* history: number of Register calls made
    last         \* the last call made and what it returned

vars == <<tree, count, registered, nregs, last>>

(***************************************************************************)
(* Bounds of the model.                                                    *)
(***************************************************************************)
MaxRegs == 2
MaxPathLen == 6

(***************************************************************************)
(* The parse characters New() configures.                                  *)
(***************************************************************************)
override == "!"
separator == "/"
variable == ":"
prefix == "+"
wildcardone == "?"
wildcardmany == "*"

(***************************************************************************)
(* Go string indexing and slicing.                                         *)
(***************************************************************************)
At(s, i) == s[i + 1]
Slice(s, a, b) == SubSeq(s, a + 1, b)

(***************************************************************************)
(* Go evaluates an expression once, when it assigns it to a variable.      *)
(* Bind(e, F) is F applied to the value of e: e is evaluated once, however *)
(* often F uses it.                                                        *)
(***************************************************************************)
Bind(e, F(_)) == CHOOSE y \in {F(x) : x \in {e}} : TRUE

(***************************************************************************)
(* element and newElement.                                                 *)
(***************************************************************************)
NoString == << >>

\* an element that starts with its flags set
newElementFlagged ==
    [template |-> NoString, hasvariable |-> NoString, isprefix |-> TRUE,
     isoverride |-> TRUE, iswildcard |-> FALSE, hasprefixes |-> FALSE,
     haswildcards |-> FALSE]

newElement ==
    [template |-> NoString, hasvariable |-> NoString, isprefix |-> FALSE,
     isoverride |-> FALSE, iswildcard |-> FALSE, hasprefixes |-> FALSE,
     haswildcards |-> FALSE]

root == << >>

\* e.subs as a set of names, and the test  _, exists = e.subs[name]
\* subs seen as empty
subsNone(t, e) == {}

subs(t, e) == {n[Len(n)] : n \in {m \in DOMAIN t : Len(m) = Len(e) + 1 /\ SubSeq(m, 1, Len(e)) = e}}
\* a lookup in subs that finds nothing
hasSubNever(t, e, name) == FALSE

hasSub(t, e, name) == Append(e, name) \in DOMAIN t

\* The errors Register returns; NoError is nil.
NoError == "nil"
ErrEmpty == "register: empty template name"
ErrPrefixPos == "register: prefix character allowed only as suffix"
ErrInvalid == "register: invalid template"
ErrDuplicate == "register: duplicate template"
ErrVarLevel == "register: element registration on a level with a variable"
ErrMultiVar == "register: multiple variable registrations on a path level"
ErrWildVar == "register: variable names cannot contain wildcards"
ErrEmptyVar == "register: empty variable name"
ErrInvalidVar == "register: invalid variable name"
\* a run-time panic (index out of range, nil dereference)
Panic == "panic"

(***************************************************************************)
(* hasWildcards and validateVariableName.                                  *)
(***************************************************************************)
hasWildcards(name) ==
    \E i \in 0..(Len(name) - 1) :
        At(name, i) = wildcardone \/ At(name, i) = wildcardmany

\* validateVariableName without its loop over the name
validateVariableNameNoLoop(name) ==
    IF Len(name) <= 2 THEN ErrEmptyVar ELSE NoError

validateVariableName(name) ==
    IF Len(name) <= 2 THEN ErrEmptyVar
    ELSE IF \E i \in 2..(Len(name) - 1) : At(name, i) = variable
         THEN ErrInvalidVar
         ELSE NoError

(***************************************************************************)
(* matchOrInsert: st is the registerState, together with the tree and the  *)
(* counter it mutates and the error it returns.                            *)
(***************************************************************************)
matchOrInsert(st) ==
    LET name0 == Slice(st.template, st.marker, st.cursor)
        pfx == At(name0, Len(name0) - 1) = prefix
        name == IF pfx THEN Slice(name0, 0, Len(name0) - 1) ELSE name0
        namelen == Len(name)
        cur == st.current
        elem == Append(cur, name)
    IN  IF hasSub(st.tree, cur, name)
        THEN IF st.cursor = st.length /\ st.tree[cur].template # NoString
             THEN [st EXCEPT !.err = ErrDuplicate]
             ELSE [st EXCEPT !.current = elem, !.existing = TRUE]
        ELSE
        LET iswild == hasWildcards(name)
            \* the parent is marked before any of the checks below
            t1 == [st.tree EXCEPT
                     ![cur].hasprefixes = IF pfx THEN TRUE ELSE @,
                     ![cur].haswildcards = IF iswild THEN TRUE ELSE @]
            isvar == namelen > 1 /\ At(name, 1) = variable
            verr == IF isvar THEN validateVariableName(name) ELSE NoError
        IN  IF t1[cur].hasvariable # NoString
            THEN [st EXCEPT !.tree = t1, !.err = ErrVarLevel]
            ELSE IF isvar /\ verr # NoError
            THEN [st EXCEPT !.tree = t1, !.err = verr]
            ELSE IF isvar /\ subs(t1, cur) # {}
            THEN [st EXCEPT !.tree = t1, !.err = ErrMultiVar]
            ELSE IF isvar /\ iswild
            THEN [st EXCEPT !.tree = t1, !.err = ErrWildVar]
            ELSE
            LET t2 == IF isvar THEN [t1 EXCEPT ![cur].hasvariable = name]
                               ELSE t1
                last_ == st.cursor >= st.length
                e == [newElement EXCEPT
                        !.iswildcard = iswild,
                        !.isprefix = IF last_ THEN pfx ELSE FALSE,
                        !.isoverride = IF last_ THEN st.override ELSE FALSE]
                t3 == [n \in DOMAIN t2 \cup {elem} |->
                          IF n = elem THEN e ELSE t2[n]]
            IN  [st EXCEPT !.tree = t3, !.current = elem,
                           !.existing = FALSE, !.count = @ + 1]

(***************************************************************************)
(* Register.  The result is the router after the call (tree, count) and    *)
(* the error returned.                                                     *)
(***************************************************************************)
RECURSIVE registerLoop(_)
registerLoop(st) ==
    IF st.cursor < st.length
    THEN IF At(st.template, st.cursor) # separator
         THEN registerLoop([st EXCEPT !.cursor = @ + 1])
         ELSE Bind(matchOrInsert(st), LAMBDA s1 :
                  IF s1.err # NoError THEN s1
                  ELSE registerLoop([s1 EXCEPT !.marker = s1.cursor,
                                               !.cursor = @ + 1]))
    ELSE st

Register(t, c, template) ==
    LET length == Len(template)
        result(tr, cn, err) == [tree |-> tr, count |-> cn, err |-> err]
    IN  IF length < 1 THEN result(t, c, ErrEmpty)
        ELSE IF \E i \in 0..(length - 1) :
                    At(template, i) = prefix /\ i < length - 1
        THEN result(t, c, ErrPrefixPos)
        ELSE
        LET ov == At(template, 0) = override
            marker == IF ov THEN 1 ELSE 0
            cursor == IF ov THEN 2 ELSE 1
        IN  IF marker >= length THEN result(t, c, Panic)
            ELSE IF At(template, marker) # separator
            THEN result(t, c, ErrInvalid)
            ELSE
            LET s0 == [template |-> template, current |-> root,
                       cursor |-> cursor, marker |-> marker,
                       length |-> length, override |-> ov,
                       existing |-> FALSE, tree |-> t, count |-> c,
                       err |-> NoError]
            IN  Bind(registerLoop(s0), LAMBDA s1 :
                Bind(IF s1.err # NoError THEN s1 ELSE matchOrInsert(s1),
                     LAMBDA s2 :
                IF s2.err # NoError THEN result(s2.tree, s2.count, s2.err)
                ELSE IF s2.existing
                THEN result(s2.tree, s2.count, ErrDuplicate)
                ELSE result([s2.tree EXCEPT
                               ![s2.current].isoverride =
                                   IF s2.override THEN TRUE ELSE @,
                               ![s2.current].template = template],
                            s2.count, NoError)))

(***************************************************************************)
(* matchWildcard.  The two scanning loops are kept as the code has them.   *)
(***************************************************************************)
RECURSIVE wildcardHead(_, _, _, _)
\* first loop: returns <<it, iw, failed>>
wildcardHead(text, wildcard, it, iw) ==
    IF it < Len(text) /\ iw < Len(wildcard)
    THEN IF At(wildcard, iw) = wildcardmany THEN <<it, iw, FALSE>>
         ELSE IF At(wildcard, iw) # wildcardone
                 /\ At(text, it) # At(wildcard, iw)
         THEN <<it, iw, TRUE>>
         ELSE wildcardHead(text, wildcard, it + 1, iw + 1)
    ELSE <<it, iw, FALSE>>

RECURSIVE wildcardTail(_, _, _, _, _, _)
\* second loop: returns <<iw, returned true>>
wildcardTail(text, wildcard, it, iw, st, sw) ==
    IF it < Len(text) /\ iw < Len(wildcard)
    THEN IF At(wildcard, iw) = wildcardmany
         THEN IF iw + 1 >= Len(wildcard) THEN <<iw + 1, TRUE>>
              ELSE wildcardTail(text, wildcard, it, iw + 1, it, iw + 1)
         ELSE IF At(wildcard, iw) = wildcardone
                 \/ At(text, it) # At(wildcard, iw)
              THEN wildcardTail(text, wildcard, it + 1, iw + 1, st, sw)
              ELSE wildcardTail(text, wildcard, st, sw, st + 1, sw)
    ELSE <<iw, FALSE>>

RECURSIVE wildcardSkip(_, _)
\* third loop: skips trailing wildcardmany characters
wildcardSkip(wildcard, iw) ==
    IF iw < Len(wildcard) /\ At(wildcard, iw) = wildcardmany
    THEN wildcardSkip(wildcard, iw + 1)
    ELSE iw

matchWildcard(text, wildcard) ==
    IF Len(text) = 0 \/ Len(wildcard) = 0 THEN FALSE
    ELSE Bind(wildcardHead(text, wildcard, 0, 0), LAMBDA h :
             IF h[3] THEN FALSE
             ELSE Bind(wildcardTail(text, wildcard, h[1], h[2], -1, 0),
                       LAMBDA tl :
                          IF tl[2] THEN TRUE
                          ELSE wildcardSkip(wildcard, tl[1]) = Len(wildcard)))

(***************************************************************************)
(* addMatch and maybeAddMatch.  st is the matchState: current, matches,    *)
(* vars, hasoverride; fault records a run-time panic.  The result is the   *)
(* state after the call and the boolean returned.                          *)
(***************************************************************************)
\* addMatch that adds the key of the element in place of its template
addMatchKey(t, st) ==
    LET cur == t[st.current]
        key == st.current[Len(st.current)]
    IN  IF cur.isoverride
        THEN [st |-> [st EXCEPT
                        !.hasoverride = TRUE,
                        !.matches = IF Len(st.matches) > 0
                                    THEN <<key>>
                                    ELSE Append(st.matches, key)],
              added |-> FALSE]
        ELSE IF st.hasoverride /\ ~cur.isoverride
        THEN [st |-> st, added |-> FALSE]
        ELSE [st |-> [st EXCEPT !.matches = Append(@, key)],
              added |-> ~cur.isprefix]

addMatch(t, st) ==
    LET cur == t[st.current]
    IN  IF cur.isoverride
        THEN [st |-> [st EXCEPT
                        !.hasoverride = TRUE,
                        !.matches = IF Len(st.matches) > 0
                                    THEN <<cur.template>>
                                    ELSE Append(st.matches, cur.template)],
              added |-> FALSE]
        ELSE IF st.hasoverride /\ ~cur.isoverride
        THEN [st |-> st, added |-> FALSE]
        ELSE [st |-> [st EXCEPT !.matches = Append(@, cur.template)],
              added |-> ~cur.isprefix]

maybeAddMatchOffByOne(t, path, cursor, st) ==
    IF t[st.current].isprefix THEN [st |-> st, added |-> FALSE]
    ELSE IF t[st.current].template = NoString
    THEN [st |-> st, added |-> FALSE]
    ELSE IF cursor <= Len(path) THEN [st |-> st, added |-> FALSE]
    ELSE addMatch(t, st)

maybeAddMatch(t, path, cursor, st) ==
    IF t[st.current].isprefix THEN [st |-> st, added |-> FALSE]
    ELSE IF t[st.current].template = NoString
    THEN [st |-> st, added |-> FALSE]
    ELSE IF cursor < Len(path) THEN [st |-> st, added |-> FALSE]
    ELSE addMatch(t, st)

(***************************************************************************)
(* nextLevel and matchLevel.  t is the tree, path the path being matched   *)
(* and ord gives, for every element, the order in which  range e.subs      *)
(* yields its keys: Go leaves that order unspecified.                      *)
(***************************************************************************)
RECURSIVE nextLevelLoop(_, _, _, _, _, _)
RECURSIVE matchLevel(_, _, _, _, _, _)
RECURSIVE scanSubs(_, _, _, _, _, _, _, _)

\* The matchState on entry to nextLevel: depth counts the calls of
\* nextLevel that have not returned, maxdepth is its largest value so far.
\* Neither is a field of the Go matchState: they measure the call stack.
enterLevel(st) ==
    [st EXCEPT !.depth = @ + 1,
               !.maxdepth = IF st.depth + 1 > @ THEN st.depth + 1 ELSE @]

\* a return that is not counted: depth then counts all calls made so far
leaveLevelUncounted(st) == st

leaveLevel(st) == [st EXCEPT !.depth = @ - 1]

\* nextLevel with its scan for the next separator started one byte late
nextLevelOneLate(t, path, ord, marker, st) ==
    Bind(nextLevelLoop(t, path, ord, marker + 2, marker, enterLevel(st)),
         LAMBDA s : leaveLevel(s))

nextLevel(t, path, ord, marker, st) ==
    Bind(nextLevelLoop(t, path, ord, marker + 1, marker, enterLevel(st)),
         LAMBDA s : leaveLevel(s))

nextLevelLoop(t, path, ord, cursor, marker, st) ==
    IF cursor < Len(path)
    THEN IF At(path, cursor) # separator
         THEN nextLevelLoop(t, path, ord, cursor + 1, marker, st)
         ELSE Bind(matchLevel(t, path, ord, cursor, marker, st), LAMBDA r :
                  IF r.stop THEN r.st
                  ELSE nextLevelLoop(t, path, ord, cursor + 1, cursor, r.st))
    ELSE matchLevel(t, path, ord, cursor, marker, st).st

\* the variable branch of matchLevel (lines 636-650)
matchVariable(t, path, ord, cursor, marker, name, st) ==
    LET hasvariable == t[st.current].hasvariable
        child == Append(st.current, hasvariable)
    IN  IF cursor > Len(path) \/ marker + 1 > cursor \/ child \notin DOMAIN t
        THEN [st |-> [st EXCEPT !.fault = TRUE], stop |-> TRUE]
        ELSE
        LET key == Slice(hasvariable, 2, Len(hasvariable))
            val == Slice(path, marker + 1, cursor)
            s1 == [st EXCEPT
                     !.vars = [k \in DOMAIN st.vars \cup {key} |->
                                  IF k = key THEN val ELSE st.vars[k]],
                     !.current = child]
        IN  Bind(IF t[child].isprefix THEN addMatch(t, s1)
                 ELSE maybeAddMatch(t, path, cursor, s1),
                 LAMBDA r :
            IF r.added THEN [st |-> r.st, stop |-> TRUE]
            ELSE [st |-> nextLevel(t, path, ord, cursor + Len(name), r.st),
                  stop |-> FALSE])

\* the prefix test of line 667
hasPrefixStrict(name, subname) ==
    Len(name) > Len(subname) /\ Slice(name, 0, Len(subname)) = subname

hasPrefix(name, subname) ==
    Len(name) >= Len(subname) /\ Slice(name, 0, Len(subname)) = subname

\* the body of the loop over state.current.subs (lines 657-673)
scanSubs(t, path, ord, cursor, name, saveelem, i, st) ==
    IF i > Len(ord[saveelem]) \/ st.fault THEN st
    ELSE
    LET subname == ord[saveelem][i]
        subelem == Append(saveelem, subname)
        \* lines 660-665: the sub is a wildcard that matches the name
        viaWildcard(s0) ==
            IF t[subelem].iswildcard /\ matchWildcard(name, subname)
            THEN Bind(maybeAddMatch(t, path, cursor,
                                    [s0 EXCEPT !.current = subelem]).st,
                      LAMBDA a :
                 Bind(nextLevel(t, path, ord, cursor, a), LAMBDA b :
                      [b EXCEPT !.current = saveelem]))
            ELSE s0
        \* lines 667-672: the sub is a prefix of the name
        viaPrefix(s1) ==
            IF t[subelem].isprefix /\ hasPrefix(name, subname) /\ ~s1.fault
            THEN Bind(addMatch(t, [s1 EXCEPT !.current = subelem]).st,
                      LAMBDA a :
                 Bind(nextLevel(t, path, ord, cursor, a), LAMBDA b :
                      [b EXCEPT !.current = saveelem]))
            ELSE s1
    IN  Bind(viaWildcard(st), LAMBDA s1 :
        Bind(viaPrefix(s1), LAMBDA s2 :
             scanSubs(t, path, ord, cursor, name, saveelem, i + 1, s2)))

matchLevel(t, path, ord, cursor, marker, st) ==
    IF st.fault THEN [st |-> st, stop |-> TRUE]
    ELSE IF marker > Len(path) THEN [st |-> st, stop |-> TRUE]
    ELSE
    LET name == IF cursor >= Len(path) THEN Slice(path, marker, Len(path))
                ELSE Slice(path, marker, cursor)
    IN  IF name = NoString THEN [st |-> st, stop |-> FALSE]
        ELSE IF t[st.current].hasvariable # NoString
        THEN matchVariable(t, path, ord, cursor, marker, name, st)
        ELSE
        LET saveelem == st.current
        IN  Bind(IF t[saveelem].haswildcards \/ t[saveelem].hasprefixes
                 THEN scanSubs(t, path, ord, cursor, name, saveelem, 1, st)
                 ELSE st,
                 LAMBDA s1 :
            IF s1.fault THEN [st |-> s1, stop |-> TRUE]
            ELSE IF hasSub(t, s1.current, name)
            THEN Bind(maybeAddMatch(t, path, cursor,
                          [s1 EXCEPT !.current = Append(s1.current, name)]),
                      LAMBDA r :
                     IF r.added THEN [st |-> r.st, stop |-> TRUE]
                     ELSE [st |-> nextLevel(t, path, ord, cursor, r.st),
                           stop |-> TRUE])
            ELSE [st |-> s1, stop |-> TRUE])

(***************************************************************************)
(* match, Match and MatchTo.  matches0 and vars0 are the containers the    *)
(* caller hands in; Match hands in a nil slice and an empty map.           *)
(***************************************************************************)
NoVars == << >>

\* match up to the return of nextLevel(0, &state): the matchState it leaves
matchRun(t, path, ord, matches0, vars0) ==
    LET s0 == [current |-> root, matches |-> matches0, vars |-> vars0,
               hasoverride |-> FALSE, fault |-> FALSE,
               depth |-> 0, maxdepth |-> 0]
    IN  IF Len(path) < 1 THEN s0 ELSE nextLevel(t, path, ord, 0, s0)

match(t, path, ord, matches0, vars0) ==
    Bind(matchRun(t, path, ord, matches0, vars0), LAMBDA s1 :
        [matches |-> s1.matches, vars |-> s1.vars,
         matched |-> IF Len(path) < 1 THEN FALSE ELSE Len(s1.matches) > 0,
         fault |-> s1.fault])

\* the largest number of nested nextLevel calls of Match(path)
recursionDepth(t, path, ord) ==
    matchRun(t, path, ord, << >>, NoVars).maxdepth

Match(t, path, ord) == match(t, path, ord, << >>, NoVars)

MatchTo(t, path, ord, matches, vars_) == match(t, path, ord, matches, vars_)

(***************************************************************************)
(* printElement, DefinedTemplates and NumTemplates.  The loop of           *)
(* printElement ranges over e.subs in the order ord[e], from its i-th key. *)
(***************************************************************************)
\* printElement without the recursive call on each sub
RECURSIVE printElementFlat(_, _, _, _, _)
printElementFlat(t, ord, e, i, a) ==
    IF i > Len(ord[e]) THEN a
    ELSE LET elem == Append(e, ord[e][i])
         IN  printElementFlat(t, ord, e, i + 1,
                              IF t[elem].template # NoString
                              THEN Append(a, t[elem].template)
                              ELSE a)

RECURSIVE printElement(_, _, _, _, _)
printElement(t, ord, e, i, a) ==
    IF i > Len(ord[e]) THEN a
    ELSE LET elem == Append(e, ord[e][i])
             a1 == IF t[elem].template # NoString
                   THEN Append(a, t[elem].template)
                   ELSE a
         IN  Bind(printElement(t, ord, elem, 1, a1), LAMBDA a2 :
                  printElement(t, ord, e, i + 1, a2))

DefinedTemplates(t, ord) == printElement(t, ord, root, 1, << >>)

NumTemplates(c) == c

(***************************************************************************)
(* The orders in which the subs of the elements of t can be ranged over.   *)
(* Only an element whose subs are scanned and number two or more has more  *)
(* than one order.                                                         *)
(***************************************************************************)
Permutations_(S) ==
    {p \in [1..Cardinality(S) -> S] :
        \A i, j \in 1..Cardinality(S) : i # j => p[i] # p[j]}

RangeOrders(t, e) ==
    IF t[e].haswildcards \/ t[e].hasprefixes
    THEN Permutations_(subs(t, e))
    ELSE {CHOOSE p \in Permutations_(subs(t, e)) : TRUE}

RECURSIVE OrdersOver(_, _)
OrdersOver(t, N) ==
    IF N = {} THEN {[e \in {} |-> << >>]}
    ELSE LET n == CHOOSE e \in N : TRUE
         IN  {[e \in DOMAIN o \cup {n} |-> IF e = n THEN p ELSE o[e]] :
                 o \in OrdersOver(t, N \ {n}), p \in RangeOrders(t, n)}

Orders(t) == OrdersOver(t, DOMAIN t)

\* printElement ranges over the subs of every element: any order at each.
RECURSIVE PrintOrdersOver(_, _)
PrintOrdersOver(t, N) ==
    IF N = {} THEN {[e \in {} |-> << >>]}
    ELSE LET n == CHOOSE e \in N : TRUE
         IN  {[e \in DOMAIN o \cup {n} |-> IF e = n THEN p ELSE o[e]] :
                 o \in PrintOrdersOver(t, N \ {n}),
                 p \in Permutations_(subs(t, n))}

PrintOrders(t) == PrintOrdersOver(t, DOMAIN t)

(***************************************************************************)
(* The templates and paths the calls are made with.                        *)
(***************************************************************************)
Templates ==
    { <<"/">>,
      <<"/", "a">>,
      <<"/", "a", "/", "a">>,
      <<"/", ":", "v", "/", "a">>,
      <<"/", ":", "v", "/", "a", "/", "a">>,
      <<"/", "a", "/", ":", "v">>,
      <<"/", "a", "/", ":", "w">>,
      <<"/", "a", "/", "a", "+">>,
      <<"/", "a", "/", "+">>,
      <<"/", "a", "*">>,
      <<"!", "/", "a">>,
      <<"!", "/", "+">>,
      <<"!", "/", "a", "+">>,
      <<"!", "/", ":", "v", "/", "a", "/", "a">>,
      <<"/", "a", "/", ":">>,
      <<"/", ":", "v", "/", ":">> }

PathChars == {"/", "a"}

RECURSIVE SeqsUpTo(_, _)
SeqsUpTo(S, n) ==
    IF n = 0 THEN {<< >>}
    ELSE LET shorter == SeqsUpTo(S, n - 1)
         IN  shorter \cup {Append(q, c) : q \in {r \in shorter : Len(r) = n - 1}, c \in S}

Paths == SeqsUpTo(PathChars, MaxPathLen)

(***************************************************************************)
(* The router as a state machine: New, then Register and Match calls.      *)
(***************************************************************************)
NoCall ==
    [op |-> "New", arg |-> << >>, err |-> NoError, matches |-> << >>,
     vars |-> NoVars, matched |-> FALSE, fault |-> FALSE,
     pretree |-> << >>, precount |-> 0]

Init ==
    /\ tree = [e \in {root} |-> newElement]
    /\ count = 0
    /\ registered = << >>
    /\ nregs = 0
    /\ last = NoCall

(***************************************************************************)
(* Match changes nothing of the router, so the calls that can follow a     *)
(* Match are the calls that can be made in its place, and they lead to the *)
(* same states.  The model therefore makes its calls from the states a     *)
(* Register (or New) has left, and a state holding the result of a Match   *)
(* has no successor.                                                       *)
(***************************************************************************)
Idle == last.op # "Match"

DoRegister(template) ==
    /\ Idle
    /\ nregs < MaxRegs
    /\ \E r \in {Register(tree, count, template)} :
           /\ tree' = r.tree
           /\ count' = r.count
           /\ registered' = IF r.err = NoError
                            THEN Append(registered, template)
                            ELSE registered
           /\ last' = [NoCall EXCEPT !.op = "Register", !.arg = template,
                                     !.err = r.err, !.pretree = tree,
                                     !.precount = count]
    /\ nregs' = nregs + 1

DoMatch(path) ==
    /\ Idle
    /\ \E ord \in Orders(tree) :
         \E r \in {Match(tree, path, ord)} :
             last' = [NoCall EXCEPT !.op = "Match", !.arg = path,
                                    !.matches = r.matches, !.vars = r.vars,
                                    !.matched = r.matched, !.fault = r.fault]
    /\ UNCHANGED <<tree, count, registered, nregs>>

Next ==
    \/ \E template \in Templates : DoRegister(template)
    \/ \E path \in Paths : DoMatch(path)

Spec == Init /\ [][Next]_vars

(***************************************************************************)
(* The router under Register calls alone, made with a wider set of         *)
(* templates: those of Templates, the structurally invalid ones, the ones  *)
(* with an invalid variable name and the ones that differ from another     *)
(* only in the override or the prefix marker.  DefinedTemplates and        *)
(* NumTemplates are called in between.                                     *)
(***************************************************************************)
InvalidTemplates ==
    { << >>,
      <<"!">>,
      <<"a">>,
      <<"!", "a">>,
      <<"+">>,
      <<"!", "+">>,
      <<"/", "+", "a">>,
      <<"/", "a", "+", "/", "a">>,
      <<"!", "/", "+", "+">> }

VariableNameTemplates ==
    { <<"/", ":">>,
      <<"!", "/", ":">>,
      <<"/", ":", "+">>,
      <<"/", ":", "v", ":">>,
      <<"!", "/", ":", "v", ":">>,
      <<"/", ":", "v", ":", "+">>,
      <<"/", ":", "v", "*">>,
      <<"!", "/", ":", "v", "*">>,
      <<"/", ":", "v", "?", "+">>,
      <<"/", "a", "/", ":", "v", "*">>,
      <<"/", "a", "/", ":", ":">> }

MarkerVariants ==
    { <<"/", "+">>,
      <<"/", "a", "+">>,
      <<"!", "/">>,
      <<"!", "/", "a", "/", "a">>,
      <<"/", ":", "v">>,
      <<"/", ":", "v", "+">> }

RegisterTemplates ==
    Templates \cup InvalidTemplates \cup VariableNameTemplates
        \cup MarkerVariants

\* DefinedTemplates() and NumTemplates(), called on the router as it is.
DoDefinedTemplates ==
    /\ last.op # "DefinedTemplates"
    /\ \E ord \in PrintOrders(tree) :
          last' = [op |-> "DefinedTemplates",
                   defined |-> DefinedTemplates(tree, ord),
                   num |-> NumTemplates(count)]
    /\ UNCHANGED <<tree, count, registered, nregs>>

NextRegister ==
    \/ \E template \in RegisterTemplates : DoRegister(template)
    \/ DoDefinedTemplates

SpecRegister == Init /\ [][NextRegister]_vars

(***************************************************************************)
(* The router with MatchTo called on containers of the caller: the match   *)
(* sequence is empty or holds an entry of an earlier call.                 *)
(***************************************************************************)
CallerMatches == { << >>, << <<"/", "a">> >> }

DoMatchTo(path, matches0) ==
    /\ Idle
    /\ last.op # "MatchTo"
    /\ \E ord \in Orders(tree) :
         \E r \in {MatchTo(tree, path, ord, matches0, NoVars)} :
             last' = [op |-> "MatchTo", arg |-> path, ord |-> ord,
                      matches0 |-> matches0, matches |-> r.matches,
                      vars |-> r.vars, matched |-> r.matched,
                      fault |-> r.fault]
    /\ UNCHANGED <<tree, count, registered, nregs>>

NextMatchTo ==
    \/ \E template \in Templates :
          last.op # "MatchTo" /\ DoRegister(template)
    \/ \E path \in Paths, matches0 \in CallerMatches :
          DoMatchTo(path, matches0)

SpecMatchTo == Init /\ [][NextMatchTo]_vars

(***************************************************************************)
(* The router with literal templates that differ in their separators       *)
(* ("/a/a", "/a//a", "/a", "/a/"), and two templates whose Register fails  *)
(* after it has inserted a variable element.                               *)
(***************************************************************************)
VerbatimTemplates ==
    { <<"/">>,
      <<"/", "/">>,
      <<"/", "a">>,
      <<"/", "a", "/">>,
      <<"/", "/", "a">>,
      <<"/", "a", "/", "a">>,
      <<"/", "a", "/", "/", "a">>,
      <<"/", "a", "/", "a", "/">>,
      <<"/", "a", "/", ":", "v", "/", ":">>,
      <<"/", ":", "v", "/", ":">> }

NextVerbatim ==
    \/ \E template \in VerbatimTemplates : DoRegister(template)
    \/ \E path \in Paths : DoMatch(path)

SpecVerbatim == Init /\ [][NextVerbatim]_vars

(***************************************************************************)
(* Concurrent Match calls.  Registration comes first; then every matcher   *)
(* makes one Match call.  A call has its own matchState (the local         *)
(* variable of match) and takes its steps one iteration of the loop of the *)
(* outermost nextLevel at a time; between two steps the other matchers run.*)
(* A step reads the tree and the matchState of its own call only, so the   *)
(* calls that matchLevel makes inside one iteration are taken in one step. *)
(***************************************************************************)
Matchers == {1, 2}

ConcurrentTemplates ==
    { <<"/", "a">>,
      <<"/", "a", "/", "+">>,
      <<"/", "a", "/", "a", "+">>,
      <<"!", "/", "+">>,
      <<"/", ":", "v", "/", "a">> }

ConcurrentPaths ==
    { <<"/", "a">>,
      <<"/", "a", "/", "a">>,
      <<"/", "a", "/", "a", "/", "a">> }

matchResult(st) ==
    [matches |-> st.matches, vars |-> st.vars,
     matched |-> Len(st.matches) > 0, fault |-> st.fault]

\* the matchState at the start of match
newMatchState ==
    [current |-> root, matches |-> << >>, vars |-> NoVars,
     hasoverride |-> FALSE, fault |-> FALSE, depth |-> 1, maxdepth |-> 1]

NotCalled ==
    [pc |-> "idle", path |-> << >>, ord |-> << >>, cursor |-> 0,
     marker |-> 0, st |-> newMatchState,
     result |-> matchResult(newMatchState)]

\* Match and match up to the call of nextLevel(0, &state)
matchBegin(path, ord) ==
    LET s0 == newMatchState
    IN  IF Len(path) < 1
        THEN [pc |-> "done", path |-> path, ord |-> ord, cursor |-> 0,
              marker |-> 0, st |-> s0,
              result |-> [matchResult(s0) EXCEPT !.matched = FALSE]]
        ELSE [pc |-> "nextLevel", path |-> path, ord |-> ord, cursor |-> 1,
              marker |-> 0, st |-> s0, result |-> matchResult(s0)]

matchReturn(c, st) ==
    [c EXCEPT !.pc = "done", !.st = st, !.result = matchResult(st)]

\* the matchState a step of matcher p works on: the one of its own call
\* (mutant: every call works on the matchState of the first matcher)
callStateShared(calls, p) == calls[CHOOSE q \in Matchers : TRUE].st

callState(calls, p) == calls[p].st

\* one iteration of the loop of nextLevel, or the call after the loop
nextLevelStep(t, c, st) ==
    IF c.cursor < Len(c.path)
    THEN IF At(c.path, c.cursor) # separator
         THEN [c EXCEPT !.cursor = @ + 1]
         ELSE Bind(matchLevel(t, c.path, c.ord, c.cursor, c.marker, st),
                   LAMBDA r :
                      IF r.stop THEN matchReturn(c, r.st)
                      ELSE [c EXCEPT !.cursor = @ + 1, !.marker = c.cursor,
                                     !.st = r.st])
    ELSE matchReturn(c, matchLevel(t, c.path, c.ord, c.cursor, c.marker,
                                   st).st)

RegistrationFinished ==
    /\ last.op \in {"New", "Register"}
    /\ last' = [op |-> "Matching", pretree |-> tree, precount |-> count,
                calls |-> [p \in Matchers |-> NotCalled]]
    /\ UNCHANGED <<tree, count, registered, nregs>>

BeginMatch(p, path) ==
    /\ last.op = "Matching"
    /\ last.calls[p].pc = "idle"
    /\ \E ord \in Orders(tree) :
          last' = [last EXCEPT !.calls[p] = matchBegin(path, ord)]
    /\ UNCHANGED <<tree, count, registered, nregs>>

StepMatch(p) ==
    /\ last.op = "Matching"
    /\ last.calls[p].pc = "nextLevel"
    /\ last' = [last EXCEPT !.calls[p] =
                   nextLevelStep(tree, last.calls[p],
                                 callState(last.calls, p))]
    /\ UNCHANGED <<tree, count, registered, nregs>>

NextConcurrent ==
    \/ \E template \in ConcurrentTemplates :
          last.op \in {"New", "Register"} /\ DoRegister(template)
    \/ RegistrationFinished
    \/ \E p \in Matchers, path \in ConcurrentPaths : BeginMatch(p, path)
    \/ \E p \in Matchers : StepMatch(p)

SpecConcurrent == Init /\ [][NextConcurrent]_vars

(***************************************************************************)
(* ServeMux.  Handle registers the pattern with the router (mux.m holds a  *)
(* handler for every registered pattern, named here by its pattern).  A    *)
(* request is its URL path and its context: the value stored under the     *)
(* placeholders key, if any.  ServeHTTP returns what the handler it calls  *)
(* is given.                                                               *)
(***************************************************************************)
ServeMuxTemplates ==
    { <<"/", "a">>,
      <<"/", "a", "/", ":", "v">>,
      <<"/", ":", "v", "/", "a">>,
      <<"/", "a", "/", "+">> }

NotFoundHandler == <<"4", "0", "4">>

EmptyContext == [stored |-> FALSE, value |-> NoVars]

NewRequest(path) == [path |-> path, ctx |-> EmptyContext]

\* r.WithContext(context.WithValue(r.Context(), placeholders, params))
WithPlaceholders(r, params) ==
    [r EXCEPT !.ctx = [stored |-> TRUE, value |-> params]]

Placeholders(r) ==
    IF r.ctx.stored THEN [isnil |-> FALSE, vars |-> r.ctx.value]
    ELSE [isnil |-> TRUE, vars |-> NoVars]

\* Handler: r is the parameter of Handler, a copy of the caller's pointer;
\* the result holds the handler, the pattern and r as Handler leaves it.
Handler(t, r, ord) ==
    Bind(Match(t, r.path, ord), LAMBDA m :
        IF ~m.matched
        THEN [h |-> NotFoundHandler, pattern |-> << >>, r |-> r,
              params |-> m.vars]
        ELSE [h |-> m.matches[Len(m.matches)],
              pattern |-> m.matches[Len(m.matches)],
              r |-> WithPlaceholders(r, m.vars),
              params |-> m.vars])

\* ServeHTTP: handler, _ := mux.Handler(r); handler.ServeHTTP(w, r)
ServeHTTP(t, r, ord) ==
    Bind(Handler(t, r, ord), LAMBDA hr :
        [handler |-> hr.h, request |-> r, params |-> hr.params])

DoServeHTTP(path) ==
    /\ last.op # "ServeHTTP"
    /\ \E ord \in Orders(tree) :
         \E s \in {ServeHTTP(tree, NewRequest(path), ord)} :
             last' = [op |-> "ServeHTTP", arg |-> path,
                      handler |-> s.handler, params |-> s.params,
                      placeholders |-> Placeholders(s.request)]
    /\ UNCHANGED <<tree, count, registered, nregs>>

NextServeMux ==
    \/ \E template \in ServeMuxTemplates :
          last.op # "ServeHTTP" /\ DoRegister(template)
    \/ \E path \in Paths : DoServeHTTP(path)

SpecServeMux == Init /\ [][NextServeMux]_vars

(***************************************************************************)
(* The router with templates that put children below a prefix terminal     *)
(* ("/a+" with "/a/a"), a prefix template below a variable element and a   *)
(* glob element, matched against paths that may hold the glob byte.        *)
(***************************************************************************)
BranchTemplates ==
    { <<"/", "a", "+">>,
      <<"/", "a", "/", "a">>,
      <<"/", "a", "/", "a", "+">>,
      <<"/", "a", "*">>,
      <<"/", ":", "v", "/", "a", "+">>,
      <<"/", ":", "v", "/", "a", "/", "a">>,
      <<"/", ":", "v">>,
      <<"/", "a", "*", "/", "a", "+">>,
      <<"/", "+">> }

BranchPaths ==
    { <<"/">>,
      <<"/", "a">>,
      <<"/", "a", "*">>,
      <<"/", "a", "a">>,
      <<"/", "a", "/", "a">>,
      <<"/", "a", "/", "a", "/", "a">>,
      <<"a">>,
      <<"a", "/", "a">> }

NextBranch ==
    \/ \E template \in BranchTemplates : DoRegister(template)
    \/ \E path \in BranchPaths : DoMatch(path)

SpecBranch == Init /\ [][NextBranch]_vars

(***************************************************************************)
(* matchWildcard on its own: a text and a wildcard are drawn, then the     *)
(* function is applied to them.                                            *)
(***************************************************************************)
MaxTextLen == 3
MaxWildcardLen == 3

TextChars == {"a", "b"}
WildcardChars == {"a", "b", wildcardone, wildcardmany}

InitWildcard ==
    /\ tree = [e \in {root} |-> newElement]
    /\ count = 0
    /\ registered = << >>
    /\ nregs = 0
    /\ \E text \in SeqsUpTo(TextChars, MaxTextLen) :
          \E wildcard \in SeqsUpTo(WildcardChars, MaxWildcardLen) :
             last = [op |-> "arguments", text |-> text, wildcard |-> wildcard]

DoMatchWildcard ==
    /\ last.op = "arguments"
    /\ last' = [op |-> "matchWildcard", text |-> last.text,
                wildcard |-> last.wildcard,
                result |-> matchWildcard(last.text, last.wildcard)]
    /\ UNCHANGED <<tree, count, registered, nregs>>

NextWildcard == DoMatchWildcard

SpecWildcard == InitWildcard /\ [][NextWildcard]_vars

(***************************************************************************)
(* Vocabulary of the properties: what a template and a path ARE, stated    *)
(* without reference to how Register and Match work.                       *)
(***************************************************************************)
Range(s) == {s[i] : i \in 1..Len(s)}

\* The elements of a path or template: each starts at a separator.
RECURSIVE Elements(_)
Elements(s) ==
    IF s = << >> THEN << >>
    ELSE LET stops == {i \in 2..Len(s) : s[i] = separator}
             cut == IF stops = {} THEN Len(s) + 1
                    ELSE CHOOSE i \in stops : \A j \in stops : i <= j
         IN  <<SubSeq(s, 1, cut - 1)>> \o Elements(SubSeq(s, cut, Len(s)))

IsOverrideTemplate(T) == Len(T) > 0 /\ T[1] = override
IsPrefixTemplate(T) == Len(T) > 0 /\ T[Len(T)] = prefix
HasGlob(s) == \E i \in 1..Len(s) : s[i] \in {wildcardone, wildcardmany}

\* A template without its leading override and trailing prefix markers.
Body(T) ==
    LET from == IF IsOverrideTemplate(T) THEN 2 ELSE 1
        to == IF IsPrefixTemplate(T) THEN Len(T) - 1 ELSE Len(T)
    IN  SubSeq(T, from, to)

IsVariableElement(e) == Len(e) > 2 /\ e[1] = separator /\ e[2] = variable
VariableName(e) == SubSeq(e, 3, Len(e))
ElementBody(e) == SubSeq(e, 2, Len(e))

Registered == Range(registered)
IsMatchResult == last.op = "Match"

\* P has as many elements as T and equals T at every literal element.
SameShape(T, P) ==
    LET tel == Elements(Body(T))
        pel == Elements(P)
    IN  /\ Len(pel) = Len(tel)
        /\ \A k \in 1..Len(tel) : ~IsVariableElement(tel[k]) => pel[k] = tel[k]

(***************************************************************************)
(* C1: a registered template made of literal and variable elements only    *)
(* matches every path that has as many elements and agrees with it on the  *)
(* literal ones; Match reports it and binds every variable to the body of  *)
(* the path element at its position.                                       *)
(***************************************************************************)
C1_VariableTemplateMatches ==
    IsMatchResult =>
        \A T \in Registered :
            (/\ ~IsOverrideTemplate(T) /\ ~IsPrefixTemplate(T) /\ ~HasGlob(T)
             /\ SameShape(T, last.arg))
            => /\ last.matched
               /\ T \in Range(last.matches)
               /\ \A k \in 1..Len(Elements(T)) :
                     LET e == Elements(T)[k]
                     IN  IsVariableElement(e) =>
                            /\ VariableName(e) \in DOMAIN last.vars
                            /\ last.vars[VariableName(e)]
                                  = ElementBody(Elements(last.arg)[k])

(***************************************************************************)
(* C2: Match reports a template without prefix marker and glob characters  *)
(* only for a path with as many elements that agrees with it on every      *)
(* literal element (a variable stands for exactly one element).            *)
(***************************************************************************)
C2_MatchedTemplateHasShapeOfPath ==
    IsMatchResult =>
        \A T \in Registered :
            (~IsPrefixTemplate(T) /\ ~HasGlob(T) /\ T \in Range(last.matches))
            => SameShape(T, last.arg)

(***************************************************************************)
(* What it means for a template to match a path, element by element: a     *)
(* literal element matches itself, a variable element any one element, a   *)
(* glob element the elements its pattern describes, and a prefix template  *)
(* every path that begins with the template without its marker.            *)
(***************************************************************************)
RECURSIVE GlobMatches(_, _)
GlobMatches(text, pattern) ==
    IF pattern = << >> THEN text = << >>
    ELSE IF pattern[1] = wildcardmany
    THEN \/ GlobMatches(text, Tail(pattern))
         \/ text # << >> /\ GlobMatches(Tail(text), pattern)
    ELSE /\ text # << >>
         /\ pattern[1] = wildcardone \/ pattern[1] = text[1]
         /\ GlobMatches(Tail(text), Tail(pattern))

ElementMatches(te, pe) ==
    IF IsVariableElement(te) THEN Len(pe) >= 1 /\ pe[1] = separator
    ELSE IF HasGlob(te) THEN GlobMatches(pe, te)
    ELSE pe = te

TemplateMatches(T, P) ==
    LET tel == Elements(Body(T))
        pel == Elements(P)
        n == Len(tel)
    IN  IF IsPrefixTemplate(T)
        THEN /\ Len(pel) >= n
             /\ \A k \in 1..(n - 1) : ElementMatches(tel[k], pel[k])
             /\ IF IsVariableElement(tel[n])
                THEN ElementMatches(tel[n], pel[n])
                ELSE Len(pel[n]) >= Len(tel[n])
                     /\ SubSeq(pel[n], 1, Len(tel[n])) = tel[n]
        ELSE /\ Len(pel) = n
             /\ \A k \in 1..n : ElementMatches(tel[k], pel[k])

IsLiteralTemplate(T) ==
    /\ ~IsOverrideTemplate(T) /\ ~IsPrefixTemplate(T) /\ ~HasGlob(T)
    /\ \A i \in 1..Len(T) : T[i] # variable

SingleOverride(matches) ==
    Len(matches) = 1 /\ IsOverrideTemplate(matches[1])

(***************************************************************************)
(* C3 as stated: Match(T) of a registered literal template T returns       *)
(* exactly [T].                                                            *)
(***************************************************************************)
C3_LiteralRoundTripExact ==
    (IsMatchResult /\ last.arg \in Registered /\ IsLiteralTemplate(last.arg))
    => last.matched /\ last.matches = <<last.arg>>

(***************************************************************************)
(* C3 amended: Match(T) of a registered literal template T reports a       *)
(* match and a list whose last element is T, unless an override template   *)
(* matched, and then the list is that single override template; the list   *)
(* is exactly [T] when no registered template has a prefix marker, a glob  *)
(* character or a leading override marker.                                 *)
(***************************************************************************)
C3_LiteralRoundTrip ==
    (IsMatchResult /\ last.arg \in Registered /\ IsLiteralTemplate(last.arg))
    => /\ last.matched
       /\ \/ last.matches[Len(last.matches)] = last.arg
          \/ SingleOverride(last.matches)
       /\ (\A R \in Registered :
              ~IsPrefixTemplate(R) /\ ~HasGlob(R) /\ ~IsOverrideTemplate(R))
          => last.matches = <<last.arg>>

\* A literal template was matched together with a prefix or glob template.
C3_Witness ==
    /\ IsMatchResult /\ last.arg \in Registered
    /\ IsLiteralTemplate(last.arg)
    /\ Len(last.matches) = 2
    /\ last.matches[2] = last.arg

(***************************************************************************)
(* C4: if a registered override template matches the path, Match returns   *)
(* exactly one template and it is an override template.                    *)
(***************************************************************************)
C4_OverrideDominance ==
    (IsMatchResult
     /\ \E T \in Registered :
           IsOverrideTemplate(T) /\ TemplateMatches(T, last.arg))
    => SingleOverride(last.matches)

(***************************************************************************)
(* C5: when several registered override templates match the path, Match    *)
(* returns the one with the longest prefix, whatever the order in which    *)
(* the subs of an element are visited.                                     *)
(***************************************************************************)
MatchingOverrides(P) ==
    {T \in Registered : IsOverrideTemplate(T) /\ TemplateMatches(T, P)}

C5_LongestOverrideWins ==
    (IsMatchResult /\ Cardinality(MatchingOverrides(last.arg)) > 1)
    => /\ Len(last.matches) = 1
       /\ last.matches[1] \in MatchingOverrides(last.arg)
       /\ \A T \in MatchingOverrides(last.arg) :
             Len(Body(T)) <= Len(Body(last.matches[1]))

(***************************************************************************)
(* C6 as stated: with "/x/+" registered, Match(P) includes "/x/+" for      *)
(* every P whose first element is "/x" and that has a further element, and *)
(* Match("/x") does not include it.                                        *)
(***************************************************************************)
\* T is "/x/+" for a literal element "/x"
IsSubtreePrefix(T) ==
    /\ ~IsOverrideTemplate(T) /\ IsPrefixTemplate(T) /\ ~HasGlob(T)
    /\ Len(Elements(Body(T))) = 2
    /\ Elements(Body(T))[2] = <<separator>>
    /\ ~IsVariableElement(Elements(Body(T))[1])

IsBelow(T, P) ==
    Len(Elements(P)) >= 2 /\ Elements(P)[1] = Elements(Body(T))[1]

C6_PrefixMonotonicityAlways ==
    IsMatchResult =>
        \A T \in Registered :
            IsSubtreePrefix(T) =>
                /\ IsBelow(T, last.arg) => T \in Range(last.matches)
                /\ last.arg = Elements(Body(T))[1]
                      => T \notin Range(last.matches)

(***************************************************************************)
(* C6 amended: with "/x/+" registered, for every P whose first element is  *)
(* "/x" and that has a further element, Match(P) includes "/x/+" or is a   *)
(* single override template; Match("/x") does not include "/x/+".          *)
(***************************************************************************)
C6_PrefixMonotonicity ==
    IsMatchResult =>
        \A T \in Registered :
            IsSubtreePrefix(T) =>
                /\ IsBelow(T, last.arg)
                      => \/ T \in Range(last.matches)
                         \/ SingleOverride(last.matches)
                /\ last.arg = Elements(Body(T))[1]
                      => T \notin Range(last.matches)

\* "/x/+" was reported for a path two levels below "/x".
C6_Witness ==
    /\ IsMatchResult
    /\ \E T \in Registered :
          /\ IsSubtreePrefix(T) /\ IsBelow(T, last.arg)
          /\ Len(Elements(last.arg)) = 3
          /\ T \in Range(last.matches)

(***************************************************************************)
(* C7: when Register returns an error the tree and the node count are as   *)
(* they were before the call.                                              *)
(***************************************************************************)
IsFailedRegister == last.op = "Register" /\ last.err # NoError

C7_FailedRegisterLeavesTree ==
    IsFailedRegister => tree = last.pretree /\ count = last.precount

(***************************************************************************)
(* C8: a failed Register is not observable: DefinedTemplates, the results  *)
(* of Match for every path and the outcome of every later Register are     *)
(* what they were before the call.                                         *)
(***************************************************************************)
MatchResults(t, path) == {Match(t, path, ord) : ord \in Orders(t)}
DefinedSet(t) == UNION {Range(DefinedTemplates(t, ord)) : ord \in Orders(t)}

C8_FailedRegisterNotObservable ==
    IsFailedRegister =>
        /\ DefinedSet(tree) = DefinedSet(last.pretree)
        /\ \A path \in Paths :
              MatchResults(tree, path) = MatchResults(last.pretree, path)
        /\ \A T \in Templates :
              Register(tree, count, T).err
                  = Register(last.pretree, last.precount, T).err

(***************************************************************************)
(* C9: Register fails with the duplicate-template error exactly when the   *)
(* node the template ends at already holds a template; when that node      *)
(* exists with an empty template, Register succeeds and sets it.           *)
(***************************************************************************)
TerminalOf(T) == Elements(Body(T))

C9_DuplicateExactlyWhenTerminalHeld ==
    last.op = "Register" =>
        LET e == TerminalOf(last.arg)
            held == e \in DOMAIN last.pretree
                    /\ last.pretree[e].template # NoString
        IN  /\ last.err = ErrDuplicate <=> held
            /\ (e \in DOMAIN last.pretree /\ ~held)
                  => last.err = NoError /\ tree[e].template = last.arg

(***************************************************************************)
(* C10: once a template with a variable element at some level is           *)
(* registered, a Register that needs another element at that level fails   *)
(* and leaves the router unchanged; so does a Register that needs a        *)
(* variable element at a level that has other elements.                    *)
(***************************************************************************)
\* the k-th element of T would be a new sub of an element of t that holds
\* the variable of a registered template
NeedsSiblingOfVariable(t, T) ==
    \E k \in 1..Len(TerminalOf(T)) :
        LET parent == SubSeq(TerminalOf(T), 1, k - 1)
        IN  /\ parent \in DOMAIN t
            /\ t[parent].hasvariable # NoString
            /\ TerminalOf(T)[k] # t[parent].hasvariable
            /\ \E R \in Registered :
                  /\ Len(TerminalOf(R)) >= k
                  /\ SubSeq(TerminalOf(R), 1, k)
                        = Append(parent, t[parent].hasvariable)

\* the k-th element of T is a variable that would be a new sub of an
\* element of t that has subs
NeedsVariableAmongSiblings(t, T) ==
    \E k \in 1..Len(TerminalOf(T)) :
        LET parent == SubSeq(TerminalOf(T), 1, k - 1)
        IN  /\ parent \in DOMAIN t
            /\ IsVariableElement(TerminalOf(T)[k])
            /\ ~hasSub(t, parent, TerminalOf(T)[k])
            /\ subs(t, parent) # {}

C10_VariableExclusivity ==
    (/\ last.op = "Register"
     /\ \/ NeedsSiblingOfVariable(last.pretree, last.arg)
        \/ NeedsVariableAmongSiblings(last.pretree, last.arg))
    => /\ last.err # NoError
       /\ tree = last.pretree /\ count = last.precount

(***************************************************************************)
(* C11.  Register returns an error, and never faults, for every            *)
(* structurally invalid template: the empty one, one whose first byte      *)
(* after an optional leading override byte is not the separator (whatever  *)
(* its length), and one that holds the prefix byte before its last byte.   *)
(***************************************************************************)
StripOverride(T) == IF IsOverrideTemplate(T) THEN Tail(T) ELSE T

StructurallyInvalid(T) ==
    \/ Len(T) = 0
    \/ Len(StripOverride(T)) = 0
    \/ StripOverride(T)[1] # separator
    \/ \E i \in 1..(Len(T) - 1) : T[i] = prefix

IsRegisterResult == last.op = "Register"

C11_InvalidTemplateIsAnError ==
    (IsRegisterResult /\ StructurallyInvalid(last.arg))
        => (last.err # NoError /\ last.err # Panic)

(***************************************************************************)
(* C12.  In every router state Register rejects with an error a template   *)
(* that has an element starting with the variable marker whose name is     *)
(* empty, holds a further variable marker or holds a glob character, with  *)
(* or without a leading override marker or a trailing prefix marker.       *)
(***************************************************************************)
HasInvalidVariableName(e) ==
    /\ Len(e) >= 2
    /\ e[1] = separator
    /\ e[2] = variable
    /\ \/ VariableName(e) = << >>
       \/ variable \in Range(VariableName(e))
       \/ HasGlob(VariableName(e))

HasInvalidVariableElement(T) ==
    \E i \in 1..Len(Elements(Body(T))) :
        HasInvalidVariableName(Elements(Body(T))[i])

C12_InvalidVariableNameRejected ==
    (IsRegisterResult /\ HasInvalidVariableElement(last.arg))
        => (last.err # NoError /\ last.err # Panic)

\* "/a/:v*" is rejected on a router that holds "/a"
C12_Witness ==
    /\ IsRegisterResult
    /\ last.arg = <<"/", "a", "/", ":", "v", "*">>
    /\ <<"/", "a">> \in Registered
    /\ last.err = ErrWildVar

(***************************************************************************)
(* C13.  Two templates that decompose into the same element sequence once  *)
(* a leading override marker and a trailing prefix marker are stripped are *)
(* never both registered: after one is registered, Register of the other   *)
(* fails, and the node of a registered template carries that template.     *)
(***************************************************************************)
SameNode(T, U) == Elements(Body(T)) = Elements(Body(U))

RegisteredBefore ==
    IF IsRegisterResult /\ last.err = NoError
    THEN Range(SubSeq(registered, 1, Len(registered) - 1))
    ELSE Registered

C13_OneTemplatePerNode ==
    /\ (IsRegisterResult /\ \E T \in RegisteredBefore : SameNode(T, last.arg))
           => last.err # NoError
    /\ \A T \in Registered :
           /\ Elements(Body(T)) \in DOMAIN tree
           /\ tree[Elements(Body(T))].template = T

\* "/a" is refused on a router that holds "/a+"
C13_Witness ==
    /\ IsRegisterResult
    /\ last.arg = <<"/", "a">>
    /\ registered = << <<"/", "a", "+">> >>
    /\ last.err = ErrDuplicate

(***************************************************************************)
(* C14.  Enumeration completeness: after any sequence of Register calls,   *)
(* DefinedTemplates() holds every template whose Register call returned    *)
(* nil exactly once, and holds no other string.                            *)
(***************************************************************************)
IsDefinedTemplatesResult == last.op = "DefinedTemplates"

Occurrences(s, x) == Cardinality({i \in 1..Len(s) : s[i] = x})

C14_EnumerationCompleteness ==
    IsDefinedTemplatesResult =>
        /\ \A T \in Registered : Occurrences(last.defined, T) = 1
        /\ Range(last.defined) \subseteq Registered

\* one template is listed on a router where a failed Register left a node
\* without a template
C14_Witness ==
    /\ IsDefinedTemplatesResult
    /\ Len(last.defined) = 1
    /\ nregs > Len(registered)
    /\ \E n \in DOMAIN tree : n # root /\ tree[n].template = NoString

(***************************************************************************)
(* C15.  Determinism: Match(P) is a function of the set of registered      *)
(* templates and P alone: the template list (members, order, surviving     *)
(* override) and the variables are the same whatever order the subs of an  *)
(* element are iterated in.                                                *)
(***************************************************************************)
C15_MatchIsDeterministic ==
    IsMatchResult =>
        \A r \in MatchResults(tree, last.arg) :
            /\ r.matches = last.matches
            /\ r.vars = last.vars
            /\ r.matched = last.matched

(***************************************************************************)
(* C16.  Match never reports a failure other than by matched = false, and  *)
(* whenever it returns matched = false both outputs are empty: the         *)
(* template list has no element and the variable mapping has no binding.   *)
(* This includes the empty path.                                           *)
(***************************************************************************)
C16_NoMatchHasEmptyOutputs ==
    IsMatchResult =>
        /\ ~last.fault
        /\ ~last.matched => (last.matches = << >> /\ DOMAIN last.vars = {})

(***************************************************************************)
(* C17.  matchWildcard(text, pattern) is true exactly when the whole of    *)
(* text matches the whole of pattern under glob rules ('?' one byte, '*'   *)
(* a possibly empty run of bytes, any other byte itself), for non-empty    *)
(* texts and patterns; it is false when text or pattern is empty.          *)
(***************************************************************************)
C17_MatchWildcardIsGlob ==
    last.op = "matchWildcard" =>
        IF last.text = << >> \/ last.wildcard = << >>
        THEN last.result = FALSE
        ELSE last.result = GlobMatches(last.text, last.wildcard)

(***************************************************************************)
(* C18.  MatchTo behaves as Match on containers of the caller: it returns  *)
(* true exactly when the path matched a template in this call, and it only *)
(* appends to the match sequence: the entries that were in it before the   *)
(* call are neither overwritten nor removed.                               *)
(***************************************************************************)
C18_MatchToOnlyAppends ==
    last.op = "MatchTo" =>
        /\ last.matched = Match(tree, last.arg, last.ord).matched
        /\ Len(last.matches) >= Len(last.matches0)
        /\ SubSeq(last.matches, 1, Len(last.matches0)) = last.matches0

(***************************************************************************)
(* C19.  After any sequence of Register calls NumTemplates() returns the   *)
(* number of defined templates: the number of Register calls that          *)
(* succeeded, which is the length of DefinedTemplates().                   *)
(***************************************************************************)
C19_NumTemplatesCountsTemplates ==
    IsDefinedTemplatesResult =>
        /\ last.num = Len(registered)
        /\ last.num = Len(last.defined)

(***************************************************************************)
(* C20.  Paths are compared verbatim: when only literal templates are      *)
(* registered, Match(P) returns exactly [P] with matched = true if P is a  *)
(* registered template and reports no match otherwise; consecutive and     *)
(* trailing separators are never collapsed.                                *)
(***************************************************************************)
OnlyLiteralsRegistered == \A T \in Registered : IsLiteralTemplate(T)

C20_PathsComparedVerbatim ==
    (IsMatchResult /\ OnlyLiteralsRegistered) =>
        IF last.arg \in Registered
        THEN last.matched /\ last.matches = <<last.arg>>
        ELSE ~last.matched /\ last.matches = << >>

\* "/a//a" is matched by itself alone on a router that also holds "/a/a"
C20_Witness ==
    /\ IsMatchResult
    /\ last.arg = <<"/", "a", "/", "/", "a">>
    /\ Registered = {<<"/", "a", "/", "a">>, <<"/", "a", "/", "/", "a">>}
    /\ last.matches = <<last.arg>>

(***************************************************************************)
(* C21.  Match only reads the router: once registration has finished, any  *)
(* number of Match calls whose steps interleave arbitrarily each return    *)
(* exactly the result they return when run alone, and the tree is the one  *)
(* registration left.                                                      *)
(***************************************************************************)
IsMatching == last.op = "Matching"

C21_ConcurrentMatchAsAlone ==
    IsMatching =>
        /\ tree = last.pretree
        /\ count = last.precount
        /\ \A p \in Matchers :
              last.calls[p].pc = "done" =>
                  last.calls[p].result =
                      Match(tree, last.calls[p].path, last.calls[p].ord)

\* both calls have returned, on different paths, one of them with a variable
C21_Witness ==
    /\ IsMatching
    /\ \A p \in Matchers : last.calls[p].pc = "done"
    /\ last.calls[1].path # last.calls[2].path
    /\ last.calls[1].result.matched
    /\ DOMAIN last.calls[2].result.vars # {}

(***************************************************************************)
(* C22.  When ServeHTTP dispatches a request whose path matched a template *)
(* with variables, the request passed to the selected handler carries the  *)
(* parsed variables in its context: Placeholders(r) called inside that     *)
(* handler returns the variable map and not nil.                           *)
(***************************************************************************)
C22_HandlerSeesPlaceholders ==
    (/\ last.op = "ServeHTTP"
     /\ last.handler # NotFoundHandler
     /\ DOMAIN last.params # {})
        => (/\ ~last.placeholders.isnil
            /\ last.placeholders.vars = last.params)

(***************************************************************************)
(* C23.  In every router state between Register calls, after successful    *)
(* and failed calls alike, for every node: hasprefixes is true exactly     *)
(* when a direct child has isprefix set, and haswildcards is true exactly  *)
(* when a direct child has iswildcard set.                                 *)
(***************************************************************************)
Children(t, e) == {Append(e, name) : name \in subs(t, e)}

C23_ScanFlagsMatchChildren ==
    \A e \in DOMAIN tree :
        /\ tree[e].hasprefixes <=>
               \E c \in Children(tree, e) : tree[c].isprefix
        /\ tree[e].haswildcards <=>
               \E c \in Children(tree, e) : tree[c].iswildcard

(***************************************************************************)
(* C24.  In every router state between Register calls, a node whose        *)
(* hasvariable is non-empty has exactly one child, stored under the key    *)
(* equal to hasvariable, and that key has a non-empty variable name after  *)
(* the separator and the variable marker: the variable branch of Match     *)
(* finds its child.                                                        *)
(***************************************************************************)
NodesBelow(e) ==
    {n \in DOMAIN tree : Len(n) = Len(e) + 1 /\ SubSeq(n, 1, Len(e)) = e}

C24_VariableNodeHasOneChild ==
    \A e \in DOMAIN tree :
        tree[e].hasvariable # NoString =>
            /\ NodesBelow(e) = {Append(e, tree[e].hasvariable)}
            /\ IsVariableElement(tree[e].hasvariable)

\* a sibling of a variable element was refused
C24_Witness ==
    /\ IsRegisterResult
    /\ last.err = ErrVarLevel
    /\ last.arg = <<"/", "a", "/", "a", "+">>
    /\ \E e \in DOMAIN tree : tree[e].hasvariable = <<"/", ":", "v">>

(***************************************************************************)
(* C25.  In every router state between Register calls, every node with     *)
(* isprefix or isoverride set is a terminal (its template is non-empty),   *)
(* and the root is never a terminal and never has isprefix or isoverride   *)
(* set.                                                                    *)
(***************************************************************************)
C25_FlagsOnlyOnTerminals ==
    /\ \A e \in DOMAIN tree :
           (tree[e].isprefix \/ tree[e].isoverride)
               => tree[e].template # NoString
    /\ tree[root].template = NoString
    /\ ~tree[root].isprefix
    /\ ~tree[root].isoverride

\* an override prefix terminal and a node without template, after a Register
\* that failed
C25_Witness ==
    /\ IsFailedRegister
    /\ \E e \in DOMAIN tree : tree[e].isprefix /\ tree[e].isoverride
    /\ \E e \in DOMAIN tree : e # root /\ tree[e].template = NoString

(***************************************************************************)
(* C26.  For every router state and every path, the template list Match    *)
(* returns holds no template more than once, also when a prefix terminal   *)
(* has children, when a prefix template lies below a variable element and  *)
(* when a path is byte-equal to a registered glob element.                 *)
(***************************************************************************)
NoDuplicates(s) == \A i, j \in 1..Len(s) : i # j => s[i] # s[j]

C26_NoTemplateTwice ==
    IsMatchResult => NoDuplicates(last.matches)

(***************************************************************************)
(* C27.  A path whose first byte is not the separator matches nothing: in  *)
(* every router state Match of such a path returns matched = false and no  *)
(* template.                                                               *)
(***************************************************************************)
StartsWithSeparator(P) == Len(P) > 0 /\ P[1] = separator

C27_PathMustStartWithSeparator ==
    (IsMatchResult /\ Len(last.arg) > 0 /\ ~StartsWithSeparator(last.arg))
        => (~last.matched /\ last.matches = << >>)

(***************************************************************************)
(* C28.  For every router state and every path, each string in the         *)
(* template list Match returns is non-empty and is a template that was     *)
(* successfully registered (a member of DefinedTemplates()).               *)
(***************************************************************************)
C28_MatchesAreRegisteredTemplates ==
    IsMatchResult =>
        \A i \in 1..Len(last.matches) :
            /\ last.matches[i] # NoString
            /\ last.matches[i] \in Registered
            /\ last.matches[i] \in DefinedSet(tree)

\* a prefix template is returned on a router where a Register failed
C28_Witness ==
    /\ IsMatchResult
    /\ last.matches = << <<"/", "a", "/", "+">> >>
    /\ nregs > Len(registered)
    /\ Len(last.arg) > 3

(***************************************************************************)
(* C29.  For every tree reachable by Register calls and every path, Match  *)
(* terminates without a runtime fault (no slice bound of the path is       *)
(* exceeded, no missing child is dereferenced), and its recursion depth is *)
(* bounded by the number of elements of the path.                          *)
(***************************************************************************)
NumElements(P) == Len(Elements(P))

TemplateDepth(T) == Len(Elements(Body(T)))
ParentOf(T) == SubSeq(Elements(Body(T)), 1, TemplateDepth(T) - 1)
IsSeqPrefix(a, b) == Len(a) <= Len(b) /\ SubSeq(b, 1, Len(a)) = a
SameBranch(T, U) == IsSeqPrefix(ParentOf(T), Elements(Body(U)))
FirstIndex(s, T) ==
    CHOOSE i \in 1..Len(s) : s[i] = T /\ \A j \in 1..(i - 1) : s[j] # T
NoOverrideMatched(s) == \A i \in 1..Len(s) : ~IsOverrideTemplate(s[i])

C30_MatchesOrderedByTraversal ==
    (IsMatchResult /\ NoOverrideMatched(last.matches)) =>
        LET m == last.matches
        IN  /\ \A i, j \in 1..Len(m) :
                  ( /\ IsPrefixTemplate(m[i])
                    /\ TemplateDepth(m[i]) < TemplateDepth(m[j])
                    /\ SameBranch(m[i], m[j]) )
                      => FirstIndex(m, m[i]) < FirstIndex(m, m[j])
            /\ \A i \in 1..Len(m) :
                  SameBranch(m[Len(m)], m[i])
                      => TemplateDepth(m[i]) <= TemplateDepth(m[Len(m)])

====
